---------------------------- MODULE Spec2Model ----------------------------
(***************************************************************************)
(* Ingenic X1830 clock generation unit (CGU).                              *)
(*                                                                         *)
(* The node table X1830_cgu_clocks, the PLL output-divider table and the   *)
(* clock ids are transcribed from drivers/clk/ingenic/x1830-cgu.c and      *)
(* include/dt-bindings/clock/x1830-cgu.h.  The engine that the table       *)
(* configures (register I/O, mux, divider, gate and PLL protocols, the     *)
(* rate recursion and the CGU lock) lives in cgu.c / cgu.h, which are not  *)
(* among the source files; those operators follow the design document and  *)
(* are marked so in the model map.                                         *)
(*                                                                         *)
(* A 32-bit register is the set of its bit positions that are 1, so that   *)
(* bit 31 and left shifts that leave the register are represented exactly. *)
(***************************************************************************)
EXTENDS Integers, Sequences, FiniteSets, TLC

(***************************************************************************)
(* Clock ids: include/dt-bindings/clock/x1830-cgu.h                        *)
(***************************************************************************)
X1830_CLK_EXCLK == 0
X1830_CLK_RTCLK == 1
X1830_CLK_APLL == 2
X1830_CLK_MPLL == 3
X1830_CLK_VPLL == 4
X1830_CLK_EPLL == 5
X1830_CLK_SCLKA == 6
X1830_CLK_CPUMUX == 7
X1830_CLK_CPU == 8
X1830_CLK_L2CACHE == 9
X1830_CLK_AHB0 == 10
X1830_CLK_AHB2PMUX == 11
X1830_CLK_AHB2 == 12
X1830_CLK_PCLK == 13
X1830_CLK_DDR == 14
X1830_CLK_MAC == 15
X1830_CLK_MSCMUX == 16
X1830_CLK_MSC0 == 17
X1830_CLK_MSC1 == 18
X1830_CLK_SSIPLL == 19
X1830_CLK_SSIPLL_DIV2 == 20
X1830_CLK_SSIMUX == 21
X1830_CLK_SFC == 22
X1830_CLK_EMC == 23
X1830_CLK_EFUSE == 24
X1830_CLK_OTG == 25
X1830_CLK_SSI0 == 26
X1830_CLK_I2C0 == 27
X1830_CLK_I2C1 == 28
X1830_CLK_I2C2 == 29
X1830_CLK_UART0 == 30
X1830_CLK_UART1 == 31
X1830_CLK_SSI == 32
X1830_CLK_PDMA == 33
X1830_CLK_TCU == 34
X1830_CLK_DTRNG == 35
X1830_CLK_OST == 36

(***************************************************************************)
(* CGU register offsets (x1830-cgu.c, lines 15-33), in decimal.            *)
(***************************************************************************)
CGU_REG_CPCCR == 0
CGU_REG_CPPCR == 12
CGU_REG_APLL == 16
CGU_REG_MPLL == 20
CGU_REG_VPLL == 224
CGU_REG_EPLL == 88
CGU_REG_CLKGR0 == 32
CGU_REG_CLKGR1 == 40
CGU_REG_DDRCDR == 44
CGU_REG_MACCDR == 84
CGU_REG_MSC0CDR == 104
CGU_REG_SSICDR == 116
CGU_REG_MSC1CDR == 164

\* Width of a CGU register in bits.
REG_BITS == 32

\* The sentinel of an absent parent slot, an invalid OD encoding or a
\* control bit that does not exist.
ABSENT == -1

(***************************************************************************)
(* Capability flags of a node (the type field of a table entry).           *)
(***************************************************************************)
CGU_CLK_EXT == "EXT"
CGU_CLK_PLL == "PLL"
CGU_CLK_MUX == "MUX"
CGU_CLK_DIV == "DIV"
CGU_CLK_GATE == "GATE"
CGU_CLK_FIXDIV == "FIXDIV"

(***************************************************************************)
(* pll_od_encoding[64] (x1830-cgu.c, lines 48-57).  TLA+ sequences start   *)
(* at 1: C index i is position i + 1.                                      *)
(***************************************************************************)
pll_od_encoding_dup ==
  << 0,  1,  1,  2, -1, -1, -1,  3,
    -1, -1, -1, -1, -1, -1, -1,  4,
    -1, -1, -1, -1, -1, -1, -1, -1,
    -1, -1, -1, -1, -1, -1, -1,  5,
    -1, -1, -1, -1, -1, -1, -1, -1,
    -1, -1, -1, -1, -1, -1, -1, -1,
    -1, -1, -1, -1, -1, -1, -1, -1,
    -1, -1, -1, -1, -1, -1, -1,  6 >>

pll_od_encoding ==
  << 0,  1, -1,  2, -1, -1, -1,  3,
    -1, -1, -1, -1, -1, -1, -1,  4,
    -1, -1, -1, -1, -1, -1, -1, -1,
    -1, -1, -1, -1, -1, -1, -1,  5,
    -1, -1, -1, -1, -1, -1, -1, -1,
    -1, -1, -1, -1, -1, -1, -1, -1,
    -1, -1, -1, -1, -1, -1, -1, -1,
    -1, -1, -1, -1, -1, -1, -1,  6 >>

(***************************************************************************)
(* The node table X1830_cgu_clocks (x1830-cgu.c, lines 59-359), one        *)
(* definition per entry.  A slot of .parents that the initializer leaves   *)
(* out is zero, as C initializes it.                                       *)
(*   mux  = { reg, shift, bits }                                           *)
(*   div  = { reg, shift, div, bits, ce_bit, busy_bit, stop_bit }          *)
(*   gate = { reg, bit }                                                   *)
(***************************************************************************)
PllInfo(reg, m_offset, n_offset, bypass_bit) ==
  [reg |-> reg, rate_multiplier |-> 2,
   m_shift |-> 20, m_bits |-> 9, m_offset |-> m_offset,
   n_shift |-> 14, n_bits |-> 6, n_offset |-> n_offset,
   od_shift |-> 11, od_bits |-> 3, od_max |-> 64,
   bypass_reg |-> CGU_REG_CPPCR, bypass_bit |-> bypass_bit,
   enable_bit |-> 0, stable_bit |-> 3]

MuxInfo(reg, shift, bits) == [reg |-> reg, shift |-> shift, bits |-> bits]

DivInfo(reg, shift, div, bits, ce_bit, busy_bit, stop_bit) ==
  [reg |-> reg, shift |-> shift, div |-> div, bits |-> bits,
   ce_bit |-> ce_bit, busy_bit |-> busy_bit, stop_bit |-> stop_bit]

GateInfo(reg, bit) == [reg |-> reg, bit |-> bit]

info_EXCLK == [name |-> "ext", type |-> {CGU_CLK_EXT}, parents |-> <<0, 0, 0, 0>>]
info_RTCLK == [name |-> "rtc", type |-> {CGU_CLK_EXT}, parents |-> <<0, 0, 0, 0>>]

\* Faulty variant of the entry below: the PLL is fed from a clock that it feeds itself.
info_APLL_cyclic ==
  [name |-> "apll", type |-> {CGU_CLK_PLL},
   parents |-> <<X1830_CLK_CPUMUX, -1, -1, -1>>,
   pll |-> PllInfo(CGU_REG_APLL, 1, 1, 30)]

\* Faulty variant of the entry below: the M field is 4 bits wide.
info_APLL_narrow_m ==
  [name |-> "apll", type |-> {CGU_CLK_PLL},
   parents |-> <<X1830_CLK_EXCLK, -1, -1, -1>>,
   pll |-> [PllInfo(CGU_REG_APLL, 1, 1, 30) EXCEPT !.m_bits = 4]]

info_APLL ==
  [name |-> "apll", type |-> {CGU_CLK_PLL},
   parents |-> <<X1830_CLK_EXCLK, -1, -1, -1>>,
   pll |-> PllInfo(CGU_REG_APLL, 1, 1, 30)]

info_MPLL ==
  [name |-> "mpll", type |-> {CGU_CLK_PLL},
   parents |-> <<X1830_CLK_EXCLK, -1, -1, -1>>,
   pll |-> PllInfo(CGU_REG_MPLL, 1, 1, 28)]

info_VPLL ==
  [name |-> "vpll", type |-> {CGU_CLK_PLL},
   parents |-> <<X1830_CLK_EXCLK, -1, -1, -1>>,
   pll |-> PllInfo(CGU_REG_VPLL, 0, 0, 24)]

info_EPLL ==
  [name |-> "epll", type |-> {CGU_CLK_PLL},
   parents |-> <<X1830_CLK_EXCLK, -1, -1, -1>>,
   pll |-> PllInfo(CGU_REG_EPLL, 1, 1, 26)]

\* Faulty variant of the entry below: slot 2 names an id past the end of the table.
info_SCLKA_bad_parent ==
  [name |-> "sclk_a", type |-> {CGU_CLK_MUX},
   parents |-> <<-1, X1830_CLK_EXCLK, 37, -1>>,
   mux |-> MuxInfo(CGU_REG_CPCCR, 30, 2)]

info_SCLKA ==
  [name |-> "sclk_a", type |-> {CGU_CLK_MUX},
   parents |-> <<-1, X1830_CLK_EXCLK, X1830_CLK_APLL, -1>>,
   mux |-> MuxInfo(CGU_REG_CPCCR, 30, 2)]

info_CPUMUX ==
  [name |-> "cpu_mux", type |-> {CGU_CLK_MUX},
   parents |-> <<-1, X1830_CLK_SCLKA, X1830_CLK_MPLL, -1>>,
   mux |-> MuxInfo(CGU_REG_CPCCR, 28, 2)]

info_CPU ==
  [name |-> "cpu", type |-> {CGU_CLK_DIV},
   parents |-> <<X1830_CLK_CPUMUX, -1, -1, -1>>,
   div |-> DivInfo(CGU_REG_CPCCR, 0, 1, 4, 22, -1, -1)]

info_L2CACHE ==
  [name |-> "l2cache", type |-> {CGU_CLK_DIV},
   parents |-> <<X1830_CLK_CPUMUX, -1, -1, -1>>,
   div |-> DivInfo(CGU_REG_CPCCR, 4, 1, 4, 22, -1, -1)]

info_AHB0 ==
  [name |-> "ahb0", type |-> {CGU_CLK_MUX, CGU_CLK_DIV},
   parents |-> <<-1, X1830_CLK_SCLKA, X1830_CLK_MPLL, -1>>,
   mux |-> MuxInfo(CGU_REG_CPCCR, 26, 2),
   div |-> DivInfo(CGU_REG_CPCCR, 8, 1, 4, 21, -1, -1)]

info_AHB2PMUX ==
  [name |-> "ahb2_apb_mux", type |-> {CGU_CLK_MUX},
   parents |-> <<-1, X1830_CLK_SCLKA, X1830_CLK_MPLL, -1>>,
   mux |-> MuxInfo(CGU_REG_CPCCR, 24, 2)]

info_AHB2 ==
  [name |-> "ahb2", type |-> {CGU_CLK_DIV},
   parents |-> <<X1830_CLK_AHB2PMUX, -1, -1, -1>>,
   div |-> DivInfo(CGU_REG_CPCCR, 12, 1, 4, 20, -1, -1)]

info_PCLK ==
  [name |-> "pclk", type |-> {CGU_CLK_DIV},
   parents |-> <<X1830_CLK_AHB2PMUX, -1, -1, -1>>,
   div |-> DivInfo(CGU_REG_CPCCR, 16, 1, 4, 20, -1, -1)]

\* Faulty variant of the entry below: the divider field starts at bit 30 and leaves the register.
info_DDR_div_high ==
  [name |-> "ddr", type |-> {CGU_CLK_MUX, CGU_CLK_DIV, CGU_CLK_GATE},
   parents |-> <<-1, X1830_CLK_SCLKA, X1830_CLK_MPLL, -1>>,
   mux |-> MuxInfo(CGU_REG_DDRCDR, 30, 2),
   div |-> DivInfo(CGU_REG_DDRCDR, 30, 1, 4, 29, 28, 27),
   gate |-> GateInfo(CGU_REG_CLKGR0, 31)]

info_DDR ==
  [name |-> "ddr", type |-> {CGU_CLK_MUX, CGU_CLK_DIV, CGU_CLK_GATE},
   parents |-> <<-1, X1830_CLK_SCLKA, X1830_CLK_MPLL, -1>>,
   mux |-> MuxInfo(CGU_REG_DDRCDR, 30, 2),
   div |-> DivInfo(CGU_REG_DDRCDR, 0, 1, 4, 29, 28, 27),
   gate |-> GateInfo(CGU_REG_CLKGR0, 31)]

info_MAC ==
  [name |-> "mac", type |-> {CGU_CLK_MUX, CGU_CLK_DIV},
   parents |-> <<X1830_CLK_SCLKA, X1830_CLK_MPLL, 0, 0>>,
   mux |-> MuxInfo(CGU_REG_MACCDR, 31, 2),
   div |-> DivInfo(CGU_REG_MACCDR, 0, 1, 8, 29, 28, 27)]

info_MSCMUX ==
  [name |-> "msc_mux", type |-> {CGU_CLK_MUX},
   parents |-> <<X1830_CLK_SCLKA, X1830_CLK_MPLL, 0, 0>>,
   mux |-> MuxInfo(CGU_REG_MSC0CDR, 31, 2)]

info_MSC0 ==
  [name |-> "msc0", type |-> {CGU_CLK_DIV, CGU_CLK_GATE},
   parents |-> <<X1830_CLK_MSCMUX, -1, -1, -1>>,
   div |-> DivInfo(CGU_REG_MSC0CDR, 0, 2, 8, 29, 28, 27),
   gate |-> GateInfo(CGU_REG_CLKGR0, 4)]

\* Faulty variant of the entry below: the gate bit of MSC0 is given to MSC1 as well.
info_MSC1_gate_clash ==
  [name |-> "msc1", type |-> {CGU_CLK_DIV, CGU_CLK_GATE},
   parents |-> <<X1830_CLK_MSCMUX, -1, -1, -1>>,
   div |-> DivInfo(CGU_REG_MSC1CDR, 0, 2, 8, 29, 28, 27),
   gate |-> GateInfo(CGU_REG_CLKGR0, 4)]

info_MSC1 ==
  [name |-> "msc1", type |-> {CGU_CLK_DIV, CGU_CLK_GATE},
   parents |-> <<X1830_CLK_MSCMUX, -1, -1, -1>>,
   div |-> DivInfo(CGU_REG_MSC1CDR, 0, 2, 8, 29, 28, 27),
   gate |-> GateInfo(CGU_REG_CLKGR0, 5)]

info_SSIPLL ==
  [name |-> "ssi_pll", type |-> {CGU_CLK_MUX, CGU_CLK_DIV},
   parents |-> <<X1830_CLK_SCLKA, X1830_CLK_MPLL, -1, -1>>,
   mux |-> MuxInfo(CGU_REG_SSICDR, 30, 1),
   div |-> DivInfo(CGU_REG_SSICDR, 0, 1, 8, 29, 28, 27)]

info_SSIPLL_DIV2 ==
  [name |-> "ssi_pll_div2", type |-> {CGU_CLK_FIXDIV},
   parents |-> <<X1830_CLK_SSIPLL, 0, 0, 0>>,
   fixdiv |-> [div |-> 2]]

info_SSIMUX ==
  [name |-> "ssi_mux", type |-> {CGU_CLK_MUX},
   parents |-> <<X1830_CLK_EXCLK, X1830_CLK_SSIPLL_DIV2, -1, -1>>,
   mux |-> MuxInfo(CGU_REG_SSICDR, 30, 1)]

\* A gate-only entry: .parents = { parent, -1, -1, -1 }, .gate = { reg, bit }.
GateOnly(name, parent, reg, bit) ==
  [name |-> name, type |-> {CGU_CLK_GATE},
   parents |-> <<parent, -1, -1, -1>>,
   gate |-> GateInfo(reg, bit)]

info_SFC == GateOnly("sfc", X1830_CLK_SSIPLL, CGU_REG_CLKGR0, 20)
info_EMC == GateOnly("emc", X1830_CLK_AHB2, CGU_REG_CLKGR0, 0)
info_EFUSE == GateOnly("efuse", X1830_CLK_AHB2, CGU_REG_CLKGR0, 1)
info_OTG == GateOnly("otg", X1830_CLK_EXCLK, CGU_REG_CLKGR0, 3)
info_SSI0 == GateOnly("ssi0", X1830_CLK_SSIMUX, CGU_REG_CLKGR0, 6)
info_I2C0 == GateOnly("i2c0", X1830_CLK_PCLK, CGU_REG_CLKGR0, 7)
info_I2C1 == GateOnly("i2c1", X1830_CLK_PCLK, CGU_REG_CLKGR0, 8)
info_I2C2 == GateOnly("i2c2", X1830_CLK_PCLK, CGU_REG_CLKGR0, 9)
info_UART0 == GateOnly("uart0", X1830_CLK_EXCLK, CGU_REG_CLKGR0, 14)
info_UART1 == GateOnly("uart1", X1830_CLK_EXCLK, CGU_REG_CLKGR0, 15)
info_SSI == GateOnly("ssi1", X1830_CLK_SSIMUX, CGU_REG_CLKGR0, 19)
info_PDMA == GateOnly("pdma", X1830_CLK_EXCLK, CGU_REG_CLKGR0, 21)
info_TCU == GateOnly("tcu", X1830_CLK_EXCLK, CGU_REG_CLKGR0, 30)
info_DTRNG == GateOnly("dtrng", X1830_CLK_PCLK, CGU_REG_CLKGR1, 1)
info_OST == GateOnly("ost", X1830_CLK_EXCLK, CGU_REG_CLKGR1, 11)

X1830_cgu_clocks ==
  << info_EXCLK, info_RTCLK, info_APLL, info_MPLL, info_VPLL, info_EPLL,
     info_SCLKA, info_CPUMUX, info_CPU, info_L2CACHE, info_AHB0,
     info_AHB2PMUX, info_AHB2, info_PCLK, info_DDR, info_MAC, info_MSCMUX,
     info_MSC0, info_MSC1, info_SSIPLL, info_SSIPLL_DIV2, info_SSIMUX,
     info_SFC, info_EMC, info_EFUSE, info_OTG, info_SSI0, info_I2C0,
     info_I2C1, info_I2C2, info_UART0, info_UART1, info_SSI, info_PDMA,
     info_TCU, info_DTRNG, info_OST >>

\* ARRAY_SIZE(X1830_cgu_clocks), the table entry of an id, and the ids.
NumClocks == Len(X1830_cgu_clocks)
ClkInfo(id) == X1830_cgu_clocks[id + 1]
Nodes == 0 .. (NumClocks - 1)
NodesOf(cap) == {n \in Nodes : cap \in ClkInfo(n).type}
MuxNodes == NodesOf(CGU_CLK_MUX)
DivNodes == NodesOf(CGU_CLK_DIV)
GateNodes == NodesOf(CGU_CLK_GATE)
PllNodes == NodesOf(CGU_CLK_PLL)
ExtNodes == NodesOf(CGU_CLK_EXT)


(***************************************************************************)
(* State.                                                                  *)
(*   regs      the CGU register block: offset -> set of the bits that are 1 *)
(*   result    what the last consumer call returned                        *)
(*   req       the node and argument of the last set_rate / set_divider    *)
(*   handle    the clock a rate consumer holds                             *)
(*   refcount  enable count of each gated node                             *)
(*   lock      the CGU-wide lock: its holder, or NoOwner                   *)
(*   thr       per consumer thread: position in enable/disable, its node,  *)
(*             the call in progress and the register value it read         *)
(*   walk      the get_rate recursion: current node and the chain entered  *)
(***************************************************************************)
VARIABLES regs, result, req, handle, refcount, lock, thr, walk

vars == <<regs, result, req, handle, refcount, lock, thr, walk>>

Regs ==
  {CGU_REG_CPCCR, CGU_REG_CPPCR, CGU_REG_APLL, CGU_REG_MPLL, CGU_REG_VPLL,
   CGU_REG_EPLL, CGU_REG_CLKGR0, CGU_REG_CLKGR1, CGU_REG_DDRCDR,
   CGU_REG_MACCDR, CGU_REG_MSC0CDR, CGU_REG_SSICDR, CGU_REG_MSC1CDR}

RegBits == 0 .. (REG_BITS - 1)

(***************************************************************************)
(* Register I/O: bitfields of a register.                                  *)
(***************************************************************************)
\* The register bits of the field (shift, width); bits shifted past bit 31
\* do not exist.
FieldBits(shift, width) ==
  shift .. (IF shift + width > REG_BITS THEN REG_BITS ELSE shift + width) - 1

\* Bit i of the non-negative integer v.
BitOf(v, i) == (v \div (2 ^ i)) % 2

\* The value of a set of field-relative bit positions.
RECURSIVE BitsValue(_)
BitsValue(bs) ==
  IF bs = {} THEN 0
  ELSE LET b == CHOOSE x \in bs : TRUE IN (2 ^ b) + BitsValue(bs \ {b})

\* (reg >> shift) & GENMASK(width - 1, 0)
read_field(reg, shift, width) ==
  BitsValue({b - shift : b \in reg \cap FieldBits(shift, width)})

\* Read-modify-write: the field is replaced, every other bit is kept.
write_field(reg, shift, width, value) ==
  (reg \ FieldBits(shift, width))
    \cup {b \in FieldBits(shift, width) : BitOf(value, b - shift) = 1}

(***************************************************************************)
(* Mux resolver.                                                           *)
(***************************************************************************)
\* The raw content of the node's mux field.
mux_raw(rg, n) ==
  LET m == ClkInfo(n).mux IN read_field(rg[m.reg], m.shift, m.bits)

\* raw mux value -> slot index -> node id; ABSENT when the selected slot is
\* absent (the inconsistency the caller is told about).  A node without a
\* mux has its only parent in slot 0.
get_parent(rg, n) ==
  IF CGU_CLK_MUX \in ClkInfo(n).type
    THEN ClkInfo(n).parents[mux_raw(rg, n) + 1]
    ELSE ClkInfo(n).parents[1]

\* The slots of n that hold the node target.
SlotsOf(n, target) == {i \in 0 .. 3 : ClkInfo(n).parents[i + 1] = target}

\* The slot set_parent writes: the first one holding target.
SlotOf(n, target) ==
  CHOOSE i \in SlotsOf(n, target) : \A j \in SlotsOf(n, target) : i <= j

\* What set_parent(n, target) returns.
set_parent_result(n, target) ==
  IF CGU_CLK_MUX \notin ClkInfo(n).type THEN "UnsupportedOperation"
  ELSE IF SlotsOf(n, target) = {} THEN "ParentNotSelectable"
  ELSE "Ok"

\* set_parent: locate target among the candidates, reject it when it is not
\* there, else write its slot index to the mux field.
set_parent(n, target) ==
  /\ result' = set_parent_result(n, target)
  /\ regs' = IF set_parent_result(n, target) = "Ok"
               THEN LET m == ClkInfo(n).mux IN
                    [regs EXCEPT ![m.reg] =
                       write_field(@, m.shift, m.bits, SlotOf(n, target))]
               ELSE regs
  /\ UNCHANGED <<req, handle, refcount, lock, thr, walk>>

(***************************************************************************)
(* Values of the state components a specification does not use.            *)
(***************************************************************************)
NoOwner == "nobody"
NoNode == ABSENT
NoReq == [node |-> NoNode, arg |-> 0]
NoWalk == [cur |-> NoNode, path |-> <<>>]
ZeroRegs == [r \in Regs |-> {}]
ZeroRefs == [n \in GateNodes |-> 0]

\* The register bits that belong to some mux field.
MuxBits(r) ==
  UNION {FieldBits(ClkInfo(n).mux.shift, ClkInfo(n).mux.bits) :
           n \in {m \in MuxNodes : ClkInfo(m).mux.reg = r}}

\* Register contents in which exactly the mux field bits are arbitrary.
RegContents ==
  LET free == {p \in Regs \X RegBits : p[2] \in MuxBits(p[1])}
  IN  {[r \in Regs |-> {b \in RegBits : <<r, b>> \in s}] : s \in SUBSET free}

(***************************************************************************)
(* Specification of the mux operations.  The mux fields hold whatever the  *)
(* hardware or the boot loader left in them when the driver attaches.      *)
(***************************************************************************)
Init ==
  /\ regs \in RegContents
  /\ result = "None"
  /\ req = NoReq
  /\ handle = NoNode
  /\ refcount = ZeroRefs
  /\ lock = NoOwner
  /\ thr = <<>>
  /\ walk = NoWalk

\* The targets a consumer asks for: every node that is a candidate of some
\* mux, and RTCLK, which is a candidate of none.
Targets ==
  {t \in Nodes : \E n \in MuxNodes : SlotsOf(n, t) # {}} \cup {X1830_CLK_RTCLK}

\* A node without a mux refuses every target alike (the target is not
\* looked at), so one target stands for all of them.
Next ==
  \/ \E n \in MuxNodes, target \in Targets : set_parent(n, target)
  \/ \E n \in Nodes \ MuxNodes : set_parent(n, X1830_CLK_EXCLK)

Spec == Init /\ [][Next]_vars


(***************************************************************************)
(* Claims about the mux operations (specification Spec).                   *)
(***************************************************************************)

\* C1 as stated: for every MUX node and every content of its mux field,
\* get_parent resolves to a node id of the table (0..36), never to an
\* absent slot.
C1_GetParentNeverAbsent ==
  \A n \in MuxNodes : get_parent(regs, n) \in Nodes

\* The muxes whose 2-bit field has the absent slots 0 and 3.
SparseMuxNodes ==
  {X1830_CLK_SCLKA, X1830_CLK_CPUMUX, X1830_CLK_AHB0, X1830_CLK_AHB2PMUX,
   X1830_CLK_DDR}

\* C1 as amended: for every MUX node and every content of its mux field,
\* get_parent resolves to a node id of the table (0..36) or to the absent
\* slot, and to the absent slot exactly when the node is one of SCLKA,
\* CPUMUX, AHB0, AHB2PMUX, DDR and its field holds 0 or 3.
C1_GetParentInRangeOrAbsent ==
  \A n \in MuxNodes :
    /\ get_parent(regs, n) \in Nodes \cup {ABSENT}
    /\ get_parent(regs, n) = ABSENT
         <=> (n \in SparseMuxNodes /\ mux_raw(regs, n) \in {0, 3})

\* C1 witness: after a successful set_parent, one mux selects a node of the
\* table while another one's field still selects an absent slot.
C1_Witness ==
  /\ result = "Ok"
  /\ get_parent(regs, X1830_CLK_SCLKA) = X1830_CLK_APLL
  /\ get_parent(regs, X1830_CLK_DDR) = ABSENT
  /\ mux_raw(regs, X1830_CLK_DDR) = 3

\* C8 as stated: a successful set_parent on one MUX node leaves the raw mux
\* field, and with it the effective parent, of every other MUX node as it
\* was.
C8_SetParentFrame ==
  [][\A n \in MuxNodes, target \in Targets :
       (set_parent(n, target) /\ result' = "Ok")
         => \A m \in MuxNodes \ {n} :
              /\ mux_raw(regs', m) = mux_raw(regs, m)
              /\ get_parent(regs', m) = get_parent(regs, m)]_vars

\* The bit positions, other than the -1 sentinel, that a node declares.
ControlBits(n) ==
  LET i == ClkInfo(n) IN
    (IF CGU_CLK_GATE \in i.type THEN {i.gate.bit} ELSE {})
      \cup (IF CGU_CLK_DIV \in i.type
              THEN {i.div.ce_bit, i.div.busy_bit, i.div.stop_bit} ELSE {})
      \cup (IF CGU_CLK_PLL \in i.type
              THEN {i.pll.bypass_bit, i.pll.enable_bit, i.pll.stable_bit}
              ELSE {})

\* The (shift, width) fields that a node declares.
Fields(n) ==
  LET i == ClkInfo(n) IN
    (IF CGU_CLK_MUX \in i.type THEN {<<i.mux.shift, i.mux.bits>>} ELSE {})
      \cup (IF CGU_CLK_DIV \in i.type
              THEN {<<i.div.shift, i.div.bits>>} ELSE {})
      \cup (IF CGU_CLK_PLL \in i.type
              THEN {<<i.pll.m_shift, i.pll.m_bits>>,
                    <<i.pll.n_shift, i.pll.n_bits>>,
                    <<i.pll.od_shift, i.pll.od_bits>>}
              ELSE {})

\* C9 as stated: every field a node declares lies inside its 32-bit
\* register (shift + width <= 32) and every control bit that is not the -1
\* sentinel is in 0..31.
C9_FieldsInsideRegister ==
  /\ \A r \in Regs : regs[r] \subseteq RegBits
  /\ \A n \in Nodes :
       /\ \A f \in Fields(n) :
            f[1] >= 0 /\ f[2] >= 1 /\ f[1] + f[2] <= REG_BITS
       /\ \A b \in ControlBits(n) \ {ABSENT} : b \in RegBits

(***************************************************************************)
(* Rate engine: the descent of get_rate towards an EXTERNAL node.  The     *)
(* recursion is one step per action; walk.path is the chain of nodes it    *)
(* has entered.  A chain longer than the table has entered a node twice,   *)
(* and the model stops following it there.                                 *)
(***************************************************************************)
get_rate_begin(n) ==
  /\ walk.cur = NoNode
  /\ walk' = [cur |-> n, path |-> <<n>>]
  /\ result' = "Pending"
  /\ UNCHANGED <<regs, req, handle, refcount, lock, thr>>

get_rate_recurse ==
  /\ walk.cur \in Nodes
  /\ CGU_CLK_EXT \notin ClkInfo(walk.cur).type
  /\ Len(walk.path) <= NumClocks
  /\ LET p == get_parent(regs, walk.cur) IN
       IF p \in Nodes
         THEN /\ walk' = [cur |-> p, path |-> Append(walk.path, p)]
              /\ UNCHANGED result
         ELSE /\ walk' = NoWalk
              /\ result' = "InvalidConfiguration"
  /\ UNCHANGED <<regs, req, handle, refcount, lock, thr>>

get_rate_return ==
  /\ walk.cur \in Nodes
  /\ CGU_CLK_EXT \in ClkInfo(walk.cur).type
  /\ walk' = NoWalk
  /\ result' = "Ok"
  /\ UNCHANGED <<regs, req, handle, refcount, lock, thr>>

InitRate ==
  /\ regs \in RegContents
  /\ result = "None"
  /\ req = NoReq
  /\ handle = NoNode
  /\ refcount = ZeroRefs
  /\ lock = NoOwner
  /\ thr = <<>>
  /\ walk = NoWalk

NextRate ==
  \/ \E n \in Nodes : get_rate_begin(n)
  \/ get_rate_recurse
  \/ get_rate_return

SpecRate == InitRate /\ [][NextRate]_vars

NoRepeat(path) ==
  \A i, j \in 1 .. Len(path) : path[i] = path[j] => i = j

\* C10 as stated: from every node and for every content of the mux
\* registers the recursion never enters a node twice and goes on until it
\* reaches an EXTERNAL node: a node that is not EXTERNAL always has an
\* effective parent of the table to recurse into.
C10_ReachesExternal ==
  /\ NoRepeat(walk.path)
  /\ (walk.cur \in Nodes /\ CGU_CLK_EXT \notin ClkInfo(walk.cur).type)
       => get_parent(regs, walk.cur) \in Nodes

\* C10 as amended: from every node and for every content of the mux
\* registers the recursion never enters a node twice, so it takes fewer
\* parent steps than the table has nodes, and it goes on until it reaches
\* an EXTERNAL node or a mux whose field selects an absent slot, where it
\* ends with an error.
C10_TerminatesAcyclic ==
  /\ NoRepeat(walk.path)
  /\ Len(walk.path) <= NumClocks
  /\ (walk.cur \in Nodes /\ CGU_CLK_EXT \notin ClkInfo(walk.cur).type)
       => \/ get_parent(regs, walk.cur) \in Nodes
          \/ /\ get_parent(regs, walk.cur) = ABSENT
             /\ walk.cur \in SparseMuxNodes

\* C10 witness: a recursion from DDR (gate, divider and mux at once) that
\* went through SCLKA and APLL and has reached EXCLK.
C10_Witness ==
  walk = [cur |-> X1830_CLK_EXCLK,
          path |-> <<X1830_CLK_DDR, X1830_CLK_SCLKA, X1830_CLK_APLL,
                     X1830_CLK_EXCLK>>]


(***************************************************************************)
(* PLL math.  Rates are in Hz.  TLC's integers are 32 bits wide, so the    *)
(* search compares the errors of two candidates by cross-multiplication,   *)
(* after dividing Fin and the target by their greatest common divisor, and *)
(* the output frequency is computed by the exact identity                  *)
(*   (Fin * K) div D = (Fin div D) * K + ((Fin mod D) * K) div D.          *)
(***************************************************************************)
\* The rate of the external oscillator EXCLK, the parent of every PLL.
EXCLK_RATE == 24000000

\* The relative error, in 1/1000, up to which a rate matches its target.
RATE_TOLERANCE_PERMILLE == 1

RECURSIVE GCD(_, _)
GCD(a, b) == IF b = 0 THEN a ELSE GCD(b, a % b)

Abs(x) == IF x < 0 THEN -x ELSE x

\* Decode: the table entry at the raw field value.
pll_od_decode(raw) == pll_od_encoding[raw + 1]

\* Encode: the first index that holds od, ABSENT when there is none.
pll_od_encode(od) ==
  LET hits == {i \in 0 .. (Len(pll_od_encoding) - 1) : pll_od_encoding[i + 1] = od}
  IN  IF hits = {} THEN ABSENT
      ELSE CHOOSE i \in hits : \A j \in hits : i <= j

pll_m_raw(rg, p) ==
  LET i == ClkInfo(p).pll IN read_field(rg[i.reg], i.m_shift, i.m_bits)
pll_n_raw(rg, p) ==
  LET i == ClkInfo(p).pll IN read_field(rg[i.reg], i.n_shift, i.n_bits)
pll_od_raw(rg, p) ==
  LET i == ClkInfo(p).pll IN read_field(rg[i.reg], i.od_shift, i.od_bits)

\* The decoded M, N and OD of the PLL's register.
pll_m(rg, p) == pll_m_raw(rg, p) + ClkInfo(p).pll.m_offset
pll_n(rg, p) == pll_n_raw(rg, p) + ClkInfo(p).pll.n_offset
pll_od(rg, p) == pll_od_decode(pll_od_raw(rg, p))

\* Fout = Fin * M * rate_multiplier / (N * OD), in integer arithmetic.
compute_pll_rate(Fin, M, N, OD, mult) ==
  LET D == N * OD
      K == M * mult
  IN  (Fin \div D) * K + ((Fin % D) * K) \div D

\* The N and OD values the descriptor's fields can hold and the search may
\* use: N at least 1, OD a positive table entry whose raw encoding fits
\* the OD field.
pll_n_values(p) ==
  LET i == ClkInfo(p).pll IN
    {n \in i.n_offset .. (2 ^ i.n_bits - 1 + i.n_offset) : n >= 1}
pll_od_values(p) ==
  LET i == ClkInfo(p).pll IN
    {pll_od_decode(raw) : raw \in
       {r \in 0 .. (2 ^ i.od_bits - 1) :
          /\ r < i.od_max
          /\ pll_od_decode(r) >= 1
          /\ pll_od_encode(pll_od_decode(r)) = r}}

\* x brought into lo .. hi.
Clamp(x, lo, hi) == IF x < lo THEN lo ELSE IF x > hi THEN hi ELSE x

\* The least and the greatest M the search may use.
pll_m_min(p) ==
  IF ClkInfo(p).pll.m_offset >= 1 THEN ClkInfo(p).pll.m_offset ELSE 1
pll_m_max(p) == 2 ^ ClkInfo(p).pll.m_bits - 1 + ClkInfo(p).pll.m_offset

\* The rate-setting search: the (M, N, OD) triples of least |Fout - target|
\* (an exact match first), none when even the least error is over the
\* tolerance.  For a pair (N, OD) the error is least at one of the two M
\* next to target * N * OD / (Fin * rate_multiplier).
pll_calc_search(p, Fin, target) ==
  LET i == ClkInfo(p).pll
      g == GCD(Fin, target)
      a == (Fin \div g) * i.rate_multiplier
      t == target \div g
      ErrNum(c) == Abs(a * c[1] - t * c[2] * c[3])
      ErrDen(c) == c[2] * c[3]
      cands ==
        UNION {
          { <<Clamp((t * c[1] * c[2]) \div a, pll_m_min(p), pll_m_max(p)),
              c[1], c[2]>>,
            <<Clamp((t * c[1] * c[2]) \div a + 1, pll_m_min(p), pll_m_max(p)),
              c[1], c[2]>> } :
          c \in pll_n_values(p) \X pll_od_values(p) }
      least ==
        {c \in cands :
           \A d \in cands : ErrNum(c) * ErrDen(d) <= ErrNum(d) * ErrDen(c)}
  IN  {c \in least :
         ErrNum(c) * 1000 <= RATE_TOLERANCE_PERMILLE * t * ErrDen(c)}

\* The target rates a consumer asks a PLL for.
RateTargets == {1008000000, 1506000000, 48000}

\* The search's answers, computed once per PLL and target.
pll_calc == [p \in PllNodes, target \in RateTargets |->
               pll_calc_search(p, EXCLK_RATE, target)]

\* The PLL register with M, N and OD programmed and the PLL enabled; the
\* hardware raises the stable bit, or does not within the polling bound.
pll_program(reg, p, c, stable) ==
  LET i == ClkInfo(p).pll
      w1 == write_field(reg, i.m_shift, i.m_bits, c[1] - i.m_offset)
      w2 == write_field(w1, i.n_shift, i.n_bits, c[2] - i.n_offset)
      w3 == write_field(w2, i.od_shift, i.od_bits, pll_od_encode(c[3]))
      w4 == write_field(w3, i.enable_bit, 1, 1)
  IN  write_field(w4, i.stable_bit, 1, IF stable THEN 1 ELSE 0)

\* set_rate on a PLL: search, program, enable and poll the stable bit.
pll_set_rate(p, target) ==
  /\ req' = [node |-> p, arg |-> target]
  /\ IF pll_calc[p, target] = {}
       THEN /\ result' = "NoAchievableRate"
            /\ UNCHANGED regs
       ELSE \E c \in pll_calc[p, target], stable \in BOOLEAN :
              /\ regs' = [regs EXCEPT ![ClkInfo(p).pll.reg] =
                            pll_program(@, p, c, stable)]
              /\ result' = IF stable THEN "Ok" ELSE "StabilizationTimeout"
  /\ UNCHANGED <<handle, refcount, lock, thr, walk>>

\* The raw values a field of the given width holds when the driver
\* attaches: a sample of what the hardware or the boot loader left.
FieldSamples(bits) == {0, 1, 2, 2 ^ bits - 1}

\* The bits of a register when its field (shift, width) holds value.
FieldContent(shift, width, value) == write_field({}, shift, width, value)

InitPll ==
  /\ handle \in PllNodes
  /\ \E m \in FieldSamples(ClkInfo(handle).pll.m_bits),
        n \in FieldSamples(ClkInfo(handle).pll.n_bits),
        od \in FieldSamples(ClkInfo(handle).pll.od_bits) :
       LET i == ClkInfo(handle).pll IN
         regs = [ZeroRegs EXCEPT ![i.reg] =
                   FieldContent(i.m_shift, i.m_bits, m)
                     \cup FieldContent(i.n_shift, i.n_bits, n)
                     \cup FieldContent(i.od_shift, i.od_bits, od)]
  /\ result = "None"
  /\ req = NoReq
  /\ refcount = ZeroRefs
  /\ lock = NoOwner
  /\ thr = <<>>
  /\ walk = NoWalk

NextPll == \E target \in RateTargets : pll_set_rate(handle, target)

SpecPll == InitPll /\ [][NextPll]_vars

(***************************************************************************)
(* Claims about the PLLs (specification SpecPll).                          *)
(***************************************************************************)

\* C2 as stated: for every PLL node and every content of its M, N and OD
\* fields, the decoded M and N are at least 1 and the raw OD value decodes
\* to an entry of the output-divider table that is not -1.
C2_PllFieldsDecodeValid ==
  \A p \in PllNodes :
    /\ pll_m(regs, p) >= 1
    /\ pll_n(regs, p) >= 1
    /\ pll_od(regs, p) # ABSENT

\* The raw values and the OD values of the table's entries that are not -1.
OdValidRaws ==
  {i \in 0 .. (Len(pll_od_encoding) - 1) : pll_od_encoding[i + 1] # ABSENT}
OdValidValues == {pll_od_encoding[i + 1] : i \in OdValidRaws}

\* C3: over the entries of pll_od_encoding that are not -1, decode and
\* encode are mutual inverses, decode never yields -1 and encode never
\* picks an index that holds -1; so the OD field a set_rate has programmed
\* decodes to a table entry whose encoding is the field's content again.
C3_OdRoundTrip ==
  /\ \A od \in OdValidValues :
       /\ pll_od_encode(od) \in OdValidRaws
       /\ pll_od_decode(pll_od_encode(od)) = od
  /\ \A raw \in OdValidRaws :
       /\ pll_od_decode(raw) # ABSENT
       /\ pll_od_encode(pll_od_decode(raw)) = raw
  /\ result \in {"Ok", "StabilizationTimeout"}
       => /\ pll_od_raw(regs, handle) \in OdValidRaws
          /\ pll_od_encode(pll_od(regs, handle)) = pll_od_raw(regs, handle)

\* C3 witness: set_rate has programmed OD = 2, whose raw encoding is 3.
C3_Witness ==
  /\ result = "Ok"
  /\ pll_od_raw(regs, handle) = 3
  /\ pll_od(regs, handle) = 2
  /\ pll_od_encode(2) = 3

\* C4: with the APLL descriptor and Fin = 24 000 000, set_rate to
\* 1 008 000 000 finds a triple: it is not refused, and the M, N and OD it
\* programs lie within the descriptor's field widths, OD has a raw encoding
\* that is not -1, and Fin * M * rate_multiplier / (N * OD) is the target
\* to within the tolerance.
C4_ApllFindsTriple ==
  (req = [node |-> X1830_CLK_APLL, arg |-> 1008000000])
    => /\ result \in {"Ok", "StabilizationTimeout"}
       /\ LET i == ClkInfo(X1830_CLK_APLL).pll
              M == pll_m(regs, X1830_CLK_APLL)
              N == pll_n(regs, X1830_CLK_APLL)
              OD == pll_od(regs, X1830_CLK_APLL)
          IN  /\ M \in 1 .. (2 ^ i.m_bits)
              /\ N \in 1 .. (2 ^ i.n_bits)
              /\ OD >= 1
              /\ pll_od_encode(OD) # ABSENT
              /\ pll_od_encode(OD) < 2 ^ i.od_bits
              /\ Abs(compute_pll_rate(EXCLK_RATE, M, N, OD, i.rate_multiplier)
                       - req.arg)
                   <= (req.arg \div 1000) * RATE_TOLERANCE_PERMILLE

\* C4 witness: the search has programmed M = 42, N = 1, OD = 2 for
\* 1 008 000 000 and the PLL has stabilised.
C4_Witness ==
  /\ req = [node |-> X1830_CLK_APLL, arg |-> 1008000000]
  /\ result = "Ok"
  /\ pll_m(regs, X1830_CLK_APLL) = 42
  /\ pll_n(regs, X1830_CLK_APLL) = 1
  /\ pll_od(regs, X1830_CLK_APLL) = 2


(***************************************************************************)
(* Divider resolver.                                                       *)
(***************************************************************************)
div_raw(rg, n) ==
  LET d == ClkInfo(n).div IN read_field(rg[d.reg], d.shift, d.bits)

\* Decoded ratio = (raw + 1) * ratio_multiplier.
div_decode(n, raw) == (raw + 1) * ClkInfo(n).div.div

\* The largest ratio the field can represent.
div_max_ratio(n) == (2 ^ ClkInfo(n).div.bits) * ClkInfo(n).div.div

\* The raw value for a requested ratio: the least representable ratio that
\* is not smaller than the request, clamped to the field's range.
div_encode(n, ratio) ==
  LET d == ClkInfo(n).div
      up == (ratio + d.div - 1) \div d.div
  IN  Clamp(up - 1, 0, 2 ^ d.bits - 1)

\* The register after set_divider's writes: the field, the stop bit
\* cleared and the change-enable bit set where they exist; the hardware
\* drops the busy bit, or does not within the polling bound.
div_program(reg, n, raw, acked) ==
  LET d == ClkInfo(n).div
      w1 == write_field(reg, d.shift, d.bits, raw)
      w2 == IF d.stop_bit = ABSENT THEN w1
            ELSE write_field(w1, d.stop_bit, 1, 0)
      w3 == IF d.ce_bit = ABSENT THEN w2
            ELSE write_field(w2, d.ce_bit, 1, 1)
  IN  IF d.busy_bit = ABSENT THEN w3
      ELSE write_field(w3, d.busy_bit, 1, IF acked THEN 0 ELSE 1)

\* set_divider: compute the raw value, write it, and poll the busy bit of a
\* divider that has one.
set_divider(n, ratio) ==
  /\ req' = [node |-> n, arg |-> ratio]
  /\ \E acked \in BOOLEAN :
       /\ (ClkInfo(n).div.busy_bit = ABSENT) => acked
       /\ regs' = [regs EXCEPT ![ClkInfo(n).div.reg] =
                     div_program(@, n, div_encode(n, ratio), acked)]
       /\ result' = IF acked THEN "Ok" ELSE "BusyTimeout"
  /\ UNCHANGED <<handle, refcount, lock, thr, walk>>

\* The largest ratio of the low range of requests, and how far past the
\* field's largest ratio the requests go.
MaxRatio == 18

\* The ratios a consumer asks the divider n for: the low ones, and those
\* around and above the largest ratio the field can represent.
RatioRequests(n) ==
  (1 .. MaxRatio)
    \cup ((div_max_ratio(n) - 2) .. (div_max_ratio(n) + MaxRatio))

InitDiv ==
  /\ handle \in DivNodes
  /\ \E raw \in FieldSamples(ClkInfo(handle).div.bits) :
       regs = [ZeroRegs EXCEPT ![ClkInfo(handle).div.reg] =
                 FieldContent(ClkInfo(handle).div.shift,
                              ClkInfo(handle).div.bits, raw)]
  /\ result = "None"
  /\ req = NoReq
  /\ refcount = ZeroRefs
  /\ lock = NoOwner
  /\ thr = <<>>
  /\ walk = NoWalk

NextDiv == \E ratio \in RatioRequests(handle) : set_divider(handle, ratio)

SpecDiv == InitDiv /\ [][NextDiv]_vars

(***************************************************************************)
(* Claims about the dividers (specification SpecDiv).                      *)
(***************************************************************************)

Threads == {"t1", "t2"}

\* The largest reference count a consumer builds up.
MaxRef == 2

gate_asserted(rg, n) ==
  LET g == ClkInfo(n).gate IN read_field(rg[g.reg], g.bit, 1) = 1

\* Faulty variant of lock_available: the lock is taken without looking at
\* its holder.
lock_available_always == TRUE

\* The CGU lock is free.
lock_available == lock = NoOwner

\* Whether the call changes the hardware gate, given the count before it.
gate_changes(op, count) ==
  \/ op = "enable" /\ count = 0
  \/ op = "disable" /\ count = 1

\* enable() / disable() is called.
gate_call(t, op) ==
  /\ thr[t].pc = "idle"
  /\ op = "enable" => refcount[thr[t].node] < MaxRef
  /\ thr' = [thr EXCEPT ![t].pc = "lock", ![t].op = op]
  /\ UNCHANGED <<regs, result, req, handle, refcount, lock, walk>>

gate_lock(t) ==
  /\ thr[t].pc = "lock"
  /\ lock_available
  /\ lock' = t
  /\ thr' = [thr EXCEPT ![t].pc = "count"]
  /\ UNCHANGED <<regs, result, req, handle, refcount, walk>>

\* The reference count; a disable at count zero is refused.
gate_count(t) ==
  /\ thr[t].pc = "count"
  /\ LET n == thr[t].node
         c == refcount[n]
     IN  /\ refcount' = [refcount EXCEPT ![n] =
                           IF thr[t].op = "enable" THEN c + 1
                           ELSE IF c = 0 THEN 0 ELSE c - 1]
         /\ thr' = [thr EXCEPT ![t].pc =
                      IF gate_changes(thr[t].op, c) THEN "read" ELSE "unlock"]
  /\ UNCHANGED <<regs, result, req, handle, lock, walk>>

gate_read(t) ==
  /\ thr[t].pc = "read"
  /\ thr' = [thr EXCEPT ![t].pc = "write",
                        ![t].tmp = regs[ClkInfo(thr[t].node).gate.reg]]
  /\ UNCHANGED <<regs, result, req, handle, refcount, lock, walk>>

gate_write(t) ==
  /\ thr[t].pc = "write"
  /\ regs' = [regs EXCEPT ![ClkInfo(thr[t].node).gate.reg] =
                write_field(thr[t].tmp, ClkInfo(thr[t].node).gate.bit, 1,
                            IF thr[t].op = "enable" THEN 1 ELSE 0)]
  /\ thr' = [thr EXCEPT ![t].pc = "unlock"]
  /\ UNCHANGED <<result, req, handle, refcount, lock, walk>>

gate_unlock(t) ==
  /\ thr[t].pc = "unlock"
  /\ lock' = NoOwner
  /\ thr' = [thr EXCEPT ![t].pc = "idle", ![t].tmp = {}]
  /\ UNCHANGED <<regs, result, req, handle, refcount, walk>>

InitGate ==
  /\ regs = ZeroRegs
  /\ result = "None"
  /\ req = NoReq
  /\ handle = NoNode
  /\ refcount = ZeroRefs
  /\ lock = NoOwner
  /\ thr \in [Threads -> {[pc |-> "idle", node |-> n, op |-> "enable", tmp |-> {}] :
                            n \in GateNodes}]
  /\ walk = NoWalk

NextGate ==
  \E t \in Threads :
    \/ gate_call(t, "enable")
    \/ gate_call(t, "disable")
    \/ gate_lock(t)
    \/ gate_count(t)
    \/ gate_read(t)
    \/ gate_write(t)
    \/ gate_unlock(t)

SpecGate == InitGate /\ [][NextGate]_vars

(***************************************************************************)
(* Claims about the gates (specification SpecGate).                        *)
(***************************************************************************)

\* C6: for every GATE node the reference count is never negative and, once
\* the enable and disable calls made so far have returned the lock, the
\* gate is asserted exactly when the count is greater than zero (so enable,
\* enable, disable leaves it asserted and one more disable deasserts it).
C6_GateFollowsRefcount ==
  \A n \in GateNodes :
    /\ refcount[n] >= 0
    /\ lock = NoOwner => (gate_asserted(regs, n) <=> refcount[n] > 0)

\* C6 witness: both consumers hold the same node, which has been enabled
\* twice and disabled once: the count is 1 and the gate is asserted.
C6_Witness ==
  /\ lock = NoOwner
  /\ thr["t1"].node = X1830_CLK_MSC0 /\ thr["t2"].node = X1830_CLK_MSC0
  /\ thr["t1"].op = "enable" /\ thr["t2"].op = "disable"
  /\ thr["t1"].pc = "idle" /\ thr["t2"].pc = "idle"
  /\ refcount[X1830_CLK_MSC0] = 1
  /\ gate_asserted(regs, X1830_CLK_MSC0)

\* C7: in every interleaving of two threads, the write that ends a thread's
\* enable or disable leaves its own node's gate bit at the value the call
\* writes and changes the gate bit of no other node, also of one in the
\* same register: no update is lost or overwritten.
C7_NoLostGateUpdate ==
  [][\A t \in Threads :
       gate_write(t)
         => /\ gate_asserted(regs', thr[t].node) <=> (thr[t].op = "enable")
            /\ \A m \in GateNodes \ {thr[t].node} :
                 gate_asserted(regs', m) <=> gate_asserted(regs, m)]_vars

\* C7 witness: the two threads hold different gates of CLKGR0, each has
\* enabled its own, and both bits are set.
C7_Witness ==
  /\ thr["t1"].node = X1830_CLK_MSC0 /\ thr["t2"].node = X1830_CLK_MSC1
  /\ thr["t1"].pc = "idle" /\ thr["t2"].pc = "idle"
  /\ lock = NoOwner
  /\ regs[CGU_REG_CLKGR0] = {4, 5}

=============================================================================
